---- MODULE Spec2Model ----
(***************************************************************************)
(* Model of chat-bot.py: a Flask endpoint /chat that gates a question by   *)
(* keywords, searches a process-wide vector store built at startup,        *)
(* filters the retrieved chunks lexically and asks a completion model for  *)
(* an answer.                                                              *)
(*                                                                         *)
(* A text is a sequence of one-character strings.  Fixed message texts     *)
(* (advisories, error messages, prompt boilerplate) are kept as a single   *)
(* element so that every payload value is a sequence of strings.           *)
(***************************************************************************)
EXTENDS Integers, Sequences, FiniteSets, TLC

(***************************************************************************)
(* Bounds of the model.                                                    *)
(***************************************************************************)
\* number of requests the server handles at the same time
NumReq == 1
\* number of entries of KNOWLEDGE_BASE_URLS that are modelled
NumSources == 2
\* number of chunks a similarity search returns (the library's k)
TopK == 2
\* a generated question is made of at most this many fragments
MaxFrags == 3

(***************************************************************************)
(* Characters and Python's str operations.                                 *)
(***************************************************************************)
UPPER == <<"A","B","C","D","E","F","G","H","I","J","K","L","M",
           "N","O","P","Q","R","S","T","U","V","W","X","Y","Z">>
LOWER == <<"a","b","c","d","e","f","g","h","i","j","k","l","m",
           "n","o","p","q","r","s","t","u","v","w","x","y","z">>
WHITESPACE == {" ", "\t", "\n"}

\* str.lower() on one character
lowerChar(c) ==
    IF \E i \in 1..26 : UPPER[i] = c
    THEN LOWER[CHOOSE i \in 1..26 : UPPER[i] = c]
    ELSE c

\* str.lower()
lower(s) == [i \in 1..Len(s) |-> lowerChar(s[i])]

\* Python's `needle in hay` on strings
StrIn(needle, hay) ==
    \E n \in {needle}, h \in {hay} :
        \E i \in 0..(Len(h) - Len(n)) : SubSeq(h, i + 1, i + Len(n)) = n

\* str.split() without arguments: scan left to right, cut at runs of
\* whitespace, never produce an empty word.
RECURSIVE splitFrom(_, _, _, _)
splitFrom(s, i, cur, acc) ==
    IF i > Len(s)
    THEN IF cur = <<>> THEN acc ELSE Append(acc, cur)
    ELSE IF s[i] \in WHITESPACE
         THEN splitFrom(s, i + 1, <<>>,
                        IF cur = <<>> THEN acc ELSE Append(acc, cur))
         ELSE splitFrom(s, i + 1, Append(cur, s[i]), acc)

split(s) == splitFrom(s, 1, <<>>, <<>>)

\* str.strip()
RECURSIVE lstrip(_)
lstrip(s) ==
    IF s # <<>> /\ Head(s) \in WHITESPACE THEN lstrip(Tail(s)) ELSE s

RECURSIVE rstrip(_)
rstrip(s) ==
    IF s # <<>> /\ s[Len(s)] \in WHITESPACE
    THEN rstrip(SubSeq(s, 1, Len(s) - 1))
    ELSE s

strip(s) == rstrip(lstrip(s))

\* sep.join(parts)
RECURSIVE join(_, _)
join(sep, parts) ==
    IF parts = <<>> THEN <<>>
    ELSE IF Len(parts) = 1 THEN parts[1]
    ELSE parts[1] \o sep \o join(sep, Tail(parts))

(***************************************************************************)
(* Literals of the program.                                                *)
(***************************************************************************)
kwSoftware == <<"s","o","f","t","w","a","r","e">>
kwCoding == <<"c","o","d","i","n","g">>
kwInterview == <<"i","n","t","e","r","v","i","e","w">>

CONTINUE == <<"c","o","n","t","i","n","u","e">>
EXIT == <<"e","x","i","t">>
YES == <<"y","e","s">>
NO == <<"n","o">>

OUT_OF_DOMAIN_ADVISORY ==
    <<"The question does not seem relevant to the Software Engineering and Coding Interview domain. Please ask a relevant question!">>
NO_RELEVANT_DOCS_ADVISORY ==
    <<"No relevant documents were found. Please try a different question related to Software Engineering or Coding Interviews.">>
NO_QUESTION_MSG == <<"No question provided">>
NOT_READY_MSG == <<"Vector store is not ready">>

(***************************************************************************)
(* The two relevance gates and the answer generator.                       *)
(***************************************************************************)
\* variant: the keywords are looked up in the question as typed
grade_question_cased(question) ==
    IF StrIn(kwSoftware, question) \/ StrIn(kwCoding, question)
       \/ StrIn(kwInterview, question)
    THEN CONTINUE
    ELSE EXIT

\* variant: "soft" is enough to pass
grade_question_soft(question) ==
    LET lower_q == lower(question)
    IN  IF StrIn(<<"s","o","f","t">>, lower_q) \/ StrIn(kwCoding, lower_q)
           \/ StrIn(kwInterview, lower_q)
        THEN CONTINUE
        ELSE EXIT

grade_question(question) ==
    LET lower_q == lower(question)
    IN  IF StrIn(kwSoftware, lower_q) \/ StrIn(kwCoding, lower_q)
           \/ StrIn(kwInterview, lower_q)
        THEN CONTINUE
        ELSE EXIT

\* variant: the words of the question are compared as typed
grade_document_cased(question, doc) ==
    IF \E words \in {split(question)} :
          \E k \in 1..Len(words) : StrIn(words[k], lower(doc))
    THEN YES
    ELSE NO

\* doc is the page_content of the retrieved chunk
grade_document(question, doc) ==
    IF \E lower_q \in {lower(question)} :
          \E words \in {split(lower_q)} :
             \E k \in 1..Len(words) : StrIn(words[k], lower(doc))
    THEN YES
    ELSE NO

\* variant: the chunks are joined by a single newline
generate_answer_prompt_oneline(question, docs) ==
    LET context == join(<<"\n">>, docs)
    IN  <<"Using the following context, answer the question.\n\n">>
        \o <<"Context:\n">> \o context \o <<"\n","\n">>
        \o <<"Question: ">> \o question \o <<"\n">>
        \o <<"Answer:">>

\* the prompt generate_answer hands to the model
generate_answer_prompt(question, docs) ==
    LET context == join(<<"\n","\n">>, docs)
    IN  <<"Using the following context, answer the question.\n\n">>
        \o <<"Context:\n">> \o context \o <<"\n","\n">>
        \o <<"Question: ">> \o question \o <<"\n">>
        \o <<"Answer:">>

\* the loop of chat() that keeps the chunks graded "yes"
RECURSIVE filter_relevant(_, _, _)
filter_relevant(question, retrieved_docs, relevant_docs) ==
    IF retrieved_docs = <<>> THEN relevant_docs
    ELSE filter_relevant(question, Tail(retrieved_docs),
            IF \E grade \in {grade_document(question, Head(retrieved_docs))} :
                  lower(strip(grade)) = YES
            THEN Append(relevant_docs, Head(retrieved_docs))
            ELSE relevant_docs)

(***************************************************************************)
(* The knowledge base: the chunks each source yields after splitting.      *)
(***************************************************************************)
KNOWLEDGE_BASE_URLS == 1..NumSources

chunkCoding == <<"C","o","d","i","n","g">>
chunkSoftA == <<"S","o","f","t"," ","a">>
chunkInterview == <<"I","n","t","e","r","v","i","e","w">>
chunkPizza == <<"p","i","z","z","a">>

\* loader.load() followed by split_documents, for one source
ChunksOf(url) ==
    CASE url = 1 -> <<chunkCoding, chunkSoftA>>
      [] url = 2 -> <<chunkInterview>>
      [] OTHER -> <<chunkPizza>>

\* the chunks of the first n sources, in the order of the list
RECURSIVE AllChunks(_)
AllChunks(n) == IF n = 0 THEN <<>> ELSE AllChunks(n - 1) \o ChunksOf(n)

(***************************************************************************)
(* Request bodies.  A JSON value is a tagged record; v is always a text.   *)
(***************************************************************************)
JNull == [t |-> "null", v |-> <<>>]
JStr(s) == [t |-> "str", v |-> s]
JNum(d) == [t |-> "num", v |-> <<d>>]

\* Python truthiness of a JSON value (`not question` is its negation)
Truthy(j) ==
    CASE j.t = "null" -> FALSE
      [] j.t = "str" -> j.v # <<>>
      [] j.t = "num" -> j.v # <<"0">>
      [] OTHER -> TRUE

\* kind "nojson": get_json() raises; "null": the body is the JSON null;
\* "object": a JSON object, whose member "question" is q when has is TRUE
NoJsonBody == [kind |-> "nojson", has |-> FALSE, q |-> JNull]
NullBody == [kind |-> "null", has |-> FALSE, q |-> JNull]
EmptyObjectBody == [kind |-> "object", has |-> FALSE, q |-> JNull]
QuestionBody(j) == [kind |-> "object", has |-> TRUE, q |-> j]

qPizza == <<"p","i","z","z","a">>
qCoding == <<"C","o","d","i","n","g">>
qASoftware == <<"a"," ","S","O","F","T","W","A","R","E">>
qBlank == <<" ">>

ServedQuestions == {qPizza, qCoding, qASoftware, qBlank}

Bodies ==
    {NoJsonBody, NullBody, EmptyObjectBody}
    \cup {QuestionBody(JStr(<<>>)), QuestionBody(JNum("5"))}
    \cup {QuestionBody(JStr(s)) : s \in ServedQuestions}

(***************************************************************************)
(* Collaborators: outcomes of the library calls.                           *)
(***************************************************************************)
\* texts the completion model may return
Completions == {<<"o","k">>, <<" ","o","k","\n">>, <<>>}

ERR_GET_JSON == <<"get_json: the request body is not JSON">>
ERR_NO_GET == <<"object has no attribute 'get'">>
ERR_NO_LOWER == <<"object has no attribute 'lower'">>
ERR_CREATE_MODEL == <<"create_model failed">>
ERR_SEARCH == <<"similarity_search failed">>
ERR_NONE_SEARCH == <<"'NoneType' object has no attribute 'similarity_search'">>
ERR_COMPLETION == <<"completion failed">>
\* str(e) of an exception raised without a message, such as MemoryError()
ERR_NO_MESSAGE == <<>>

\* what str(e) can be when each collaborator raises
CreateModelErrors == {ERR_CREATE_MODEL, ERR_NO_MESSAGE}
SearchErrors == {ERR_SEARCH, ERR_NO_MESSAGE}
CompletionErrors == {ERR_COMPLETION, ERR_NO_MESSAGE}

\* all sequences of n distinct positions of an index of size len
Rankings(len, n) ==
    {p \in [1..n -> 1..len] : \A i, j \in 1..n : i # j => p[i] # p[j]}

Min(a, b) == IF a < b THEN a ELSE b

\* the possible results of vector_store.similarity_search(question):
\* the k nearest chunks, in an order the embedding decides
SearchResults(chunks) ==
    {[i \in 1..Min(TopK, Len(chunks)) |-> chunks[p[i]]] :
        p \in Rankings(Len(chunks), Min(TopK, Len(chunks)))}

(***************************************************************************)
(* State.                                                                  *)
(***************************************************************************)
VARIABLES
    mode,          \* "none", "main" (python chat-bot.py) or "wsgi" (app imported)
    mainPc,        \* "loaded", "building", "serving", "crashed"
    url,           \* build_vector_store: index of the next source to load
    docs,          \* build_vector_store: the chunks loaded so far
    vector_store,  \* the global: [built |-> FALSE] is None
    req            \* the requests being handled, by slot

vars == <<mode, mainPc, url, docs, vector_store, req>>

ReqIds == 1..NumReq

None == [built |-> FALSE, chunks |-> <<>>]
NoResponse == [status |-> 0, payload |-> [none |-> <<>>]]

IdleRequest ==
    [pc |-> "idle", body |-> NoJsonBody, question |-> JNull,
     model |-> FALSE, retrieved_docs |-> <<>>, relevant_docs |-> <<>>,
     response |-> NoResponse, trace |-> <<>>,
     searchCalls |-> 0, completionCalls |-> 0, prompt |-> <<>>,
     completion |-> JNull]

jsonify(name, text, status) ==
    [status |-> status,
     payload |-> IF name = "answer" THEN [answer |-> text] ELSE [error |-> text]]

Init ==
    /\ mode = "none"
    /\ mainPc = "loaded"
    /\ url = 1
    /\ docs = <<>>
    /\ vector_store = None
    /\ req = [r \in ReqIds |-> IdleRequest]

(***************************************************************************)
(* Startup.                                                                *)
(***************************************************************************)
\* python chat-bot.py: __main__ calls initialize_vector_store()
RunMain ==
    /\ mode = "none"
    /\ mode' = "main"
    /\ mainPc' = "building"
    /\ url' = 1
    /\ docs' = <<>>
    /\ UNCHANGED <<vector_store, req>>

\* the module is imported by a WSGI host or a test client: the __main__
\* block does not run and app serves with vector_store still None
ImportApp ==
    /\ mode = "none"
    /\ mode' = "wsgi"
    /\ mainPc' = "serving"
    /\ UNCHANGED <<url, docs, vector_store, req>>

\* one turn of the loop over KNOWLEDGE_BASE_URLS; the loader returns the
\* documents of the source, or nothing for a source it skips, or raises
LoadSource ==
    /\ mainPc = "building"
    /\ url \in KNOWLEDGE_BASE_URLS
    /\ \E outcome \in {"loaded", "skipped", "raised"} :
        CASE outcome = "loaded" ->
                /\ docs' = docs \o ChunksOf(url)
                /\ url' = url + 1
                /\ UNCHANGED mainPc
          [] outcome = "skipped" ->
                /\ url' = url + 1
                /\ UNCHANGED <<docs, mainPc>>
          [] OTHER ->
                /\ mainPc' = "crashed"
                /\ UNCHANGED <<url, docs>>
    /\ UNCHANGED <<mode, vector_store, req>>

\* variant: a failed embedding is logged and the startup goes on
FinishBuild_swallow ==
    /\ mainPc = "building"
    /\ url \notin KNOWLEDGE_BASE_URLS
    /\ \E embedded \in BOOLEAN :
        IF embedded /\ docs # <<>>
        THEN /\ vector_store' = [built |-> TRUE, chunks |-> docs]
             /\ mainPc' = "initialized"
        ELSE /\ mainPc' = "initialized"
             /\ UNCHANGED vector_store
    /\ UNCHANGED <<mode, url, docs, req>>

\* variant: an embedding that fails at some chunk leaves an index of the
\* chunks embedded before it
FinishBuild_partial ==
    /\ mainPc = "building"
    /\ url \notin KNOWLEDGE_BASE_URLS
    /\ \E n \in 0..Len(docs) :
        IF n > 0
        THEN /\ vector_store' = [built |-> TRUE, chunks |-> SubSeq(docs, 1, n)]
             /\ mainPc' = "initialized"
        ELSE /\ mainPc' = "crashed"
             /\ UNCHANGED vector_store
    /\ UNCHANGED <<mode, url, docs, req>>

\* the rest of build_vector_store and the assignment of the global;
\* embedding raises on failure and on an empty list of chunks
FinishBuild ==
    /\ mainPc = "building"
    /\ url \notin KNOWLEDGE_BASE_URLS
    /\ \E embedded \in BOOLEAN :
        IF embedded /\ docs # <<>>
        THEN /\ vector_store' = [built |-> TRUE, chunks |-> docs]
             /\ mainPc' = "initialized"
        ELSE /\ mainPc' = "crashed"
             /\ UNCHANGED vector_store
    /\ UNCHANGED <<mode, url, docs, req>>

\* app.run(...)
AppRun ==
    /\ mainPc = "initialized"
    /\ mainPc' = "serving"
    /\ UNCHANGED <<mode, url, docs, vector_store, req>>

(***************************************************************************)
(* chat(): one action per step of the handler.                             *)
(***************************************************************************)
\* variant: the exception is swallowed and the handler returns nothing
Except_silent(r, stage, message) ==
    req' = [req EXCEPT ![r].pc = "done",
                       ![r].trace = Append(@, stage)]

\* the except clause: jsonify({"error": str(e)}), 500
Except(r, stage, message) ==
    req' = [req EXCEPT ![r].pc = "done",
                       ![r].trace = Append(@, stage),
                       ![r].response = jsonify("error", message, 500)]

\* a POST /chat reaches the handler; slots are taken in order
Arrive(r) ==
    /\ mainPc = "serving"
    /\ req[r].pc = "idle"
    /\ \A o \in DOMAIN req : o < r => req[o].pc # "idle"
    /\ \E body \in Bodies :
        req' = [req EXCEPT ![r].pc = "get_question", ![r].body = body]
    /\ UNCHANGED <<mode, mainPc, url, docs, vector_store>>

\* lines 103-108
GetQuestion(r) ==
    /\ req[r].pc = "get_question"
    /\ LET body == req[r].body
           question == IF body.has THEN body.q ELSE JNull
       IN  CASE body.kind = "nojson" -> Except(r, "get_question", ERR_GET_JSON)
             [] body.kind = "null" -> Except(r, "get_question", ERR_NO_GET)
             [] OTHER ->
                 IF ~Truthy(question)
                 THEN req' = [req EXCEPT ![r].pc = "done",
                                  ![r].question = question,
                                  ![r].trace = Append(@, "get_question"),
                                  ![r].response = jsonify("error", NO_QUESTION_MSG, 400)]
                 ELSE req' = [req EXCEPT ![r].pc = "create_model",
                                  ![r].question = question,
                                  ![r].trace = Append(@, "get_question")]
    /\ UNCHANGED <<mode, mainPc, url, docs, vector_store>>

\* variant: the client is created only by generate_answer, when it is needed
CreateModel_lazy(r) ==
    /\ req[r].pc = "create_model"
    /\ req' = [req EXCEPT ![r].pc = "grade_question"]
    /\ UNCHANGED <<mode, mainPc, url, docs, vector_store>>

\* line 112
CreateModel(r) ==
    /\ req[r].pc = "create_model"
    /\ \E created \in BOOLEAN :
        IF created
        THEN req' = [req EXCEPT ![r].pc = "grade_question",
                                ![r].model = TRUE,
                                ![r].trace = Append(@, "create_model")]
        ELSE \E message \in CreateModelErrors : Except(r, "create_model", message)
    /\ UNCHANGED <<mode, mainPc, url, docs, vector_store>>

\* variant: the store is checked before the question is graded
GradeQuestion_storeFirst(r) ==
    /\ req[r].pc = "grade_question"
    /\ LET question == req[r].question
       IN  IF vector_store = None
           THEN req' = [req EXCEPT ![r].pc = "done",
                           ![r].trace = Append(@, "grade_question"),
                           ![r].response = jsonify("error", NOT_READY_MSG, 503)]
           ELSE IF question.t # "str"
           THEN Except(r, "grade_question", ERR_NO_LOWER)
           ELSE \E question_grade \in {grade_question(question.v)} :
                    IF lower(strip(question_grade)) = EXIT
                    THEN req' = [req EXCEPT ![r].pc = "done",
                                    ![r].trace = Append(@, "grade_question"),
                                    ![r].response =
                                        jsonify("answer", OUT_OF_DOMAIN_ADVISORY, 200)]
                    ELSE req' = [req EXCEPT ![r].pc = "check_store",
                                    ![r].trace = Append(@, "grade_question")]
    /\ UNCHANGED <<mode, mainPc, url, docs, vector_store>>

\* lines 115-121
GradeQuestion(r) ==
    /\ req[r].pc = "grade_question"
    /\ LET question == req[r].question
       IN  IF question.t # "str"
           THEN Except(r, "grade_question", ERR_NO_LOWER)
           ELSE \E question_grade \in {grade_question(question.v)} :
                    IF lower(strip(question_grade)) = EXIT
                    THEN req' = [req EXCEPT ![r].pc = "done",
                                    ![r].trace = Append(@, "grade_question"),
                                    ![r].response =
                                        jsonify("answer", OUT_OF_DOMAIN_ADVISORY, 200)]
                    ELSE req' = [req EXCEPT ![r].pc = "check_store",
                                    ![r].trace = Append(@, "grade_question")]
    /\ UNCHANGED <<mode, mainPc, url, docs, vector_store>>

\* variant: the test for None is missing
CheckStore_unchecked(r) ==
    /\ req[r].pc = "check_store"
    /\ req' = [req EXCEPT ![r].pc = "similarity_search",
                          ![r].trace = Append(@, "check_store")]
    /\ UNCHANGED <<mode, mainPc, url, docs, vector_store>>

\* variant: an unready store is reported as an empty result
CheckStore_empty(r) ==
    /\ req[r].pc = "check_store"
    /\ IF vector_store = None
       THEN req' = [req EXCEPT ![r].pc = "done",
                       ![r].trace = Append(@, "check_store"),
                       ![r].response =
                           jsonify("answer", NO_RELEVANT_DOCS_ADVISORY, 200)]
       ELSE req' = [req EXCEPT ![r].pc = "similarity_search",
                       ![r].trace = Append(@, "check_store")]
    /\ UNCHANGED <<mode, mainPc, url, docs, vector_store>>

\* variant: a handler that finds no store builds it itself
CheckStore_lazy(r) ==
    /\ req[r].pc = "check_store"
    /\ req' = [req EXCEPT ![r].pc = "similarity_search",
                          ![r].trace = Append(@, "check_store")]
    /\ vector_store' = IF vector_store = None
                       THEN [built |-> TRUE, chunks |-> AllChunks(NumSources)]
                       ELSE vector_store
    /\ UNCHANGED <<mode, mainPc, url, docs>>

\* lines 124-126
CheckStore(r) ==
    /\ req[r].pc = "check_store"
    /\ IF vector_store = None
       THEN req' = [req EXCEPT ![r].pc = "done",
                       ![r].trace = Append(@, "check_store"),
                       ![r].response = jsonify("error", NOT_READY_MSG, 503)]
       ELSE req' = [req EXCEPT ![r].pc = "similarity_search",
                       ![r].trace = Append(@, "check_store")]
    /\ UNCHANGED <<mode, mainPc, url, docs, vector_store>>

\* variant: a failed search is tried once more
SimilaritySearch_retry(r) ==
    /\ req[r].pc = "similarity_search"
    /\ IF vector_store = None
       THEN Except(r, "similarity_search", ERR_NONE_SEARCH)
       ELSE \/ \E found \in SearchResults(vector_store.chunks) :
                req' = [req EXCEPT ![r].pc = "grade_documents",
                           ![r].retrieved_docs = found,
                           ![r].searchCalls = @ + 1,
                           ![r].trace = Append(@, "similarity_search")]
            \/ /\ req[r].searchCalls = 0
               /\ req' = [req EXCEPT ![r].searchCalls = @ + 1,
                           ![r].trace = Append(@, "similarity_search")]
            \/ /\ req[r].searchCalls > 0
               /\ req' = [req EXCEPT ![r].pc = "done",
                           ![r].searchCalls = @ + 1,
                           ![r].trace = Append(@, "similarity_search"),
                           ![r].response = jsonify("error", ERR_SEARCH, 500)]
    /\ UNCHANGED <<mode, mainPc, url, docs, vector_store>>

\* line 129: the global is read again; the search returns or raises
SimilaritySearch(r) ==
    /\ req[r].pc = "similarity_search"
    /\ IF vector_store = None
       THEN Except(r, "similarity_search", ERR_NONE_SEARCH)
       ELSE \/ \E found \in SearchResults(vector_store.chunks) :
                req' = [req EXCEPT ![r].pc = "grade_documents",
                           ![r].retrieved_docs = found,
                           ![r].searchCalls = @ + 1,
                           ![r].trace = Append(@, "similarity_search")]
            \/ \E message \in SearchErrors :
                req' = [req EXCEPT ![r].pc = "done",
                           ![r].searchCalls = @ + 1,
                           ![r].trace = Append(@, "similarity_search"),
                           ![r].response = jsonify("error", message, 500)]
    /\ UNCHANGED <<mode, mainPc, url, docs, vector_store>>

\* variant: the test for an empty relevant_docs is missing
GradeDocuments_unchecked(r) ==
    /\ req[r].pc = "grade_documents"
    /\ \E relevant_docs \in
              {filter_relevant(req[r].question.v, req[r].retrieved_docs, <<>>)} :
           req' = [req EXCEPT ![r].pc = "generate_answer",
                       ![r].relevant_docs = relevant_docs,
                       ![r].trace = Append(@, "grade_documents")]
    /\ UNCHANGED <<mode, mainPc, url, docs, vector_store>>

\* variant: the question is kept in a global that the latest request set
GradeDocuments_shared(r) ==
    /\ req[r].pc = "grade_documents"
    /\ LET others == {o \in DOMAIN req : o # r /\ req[o].question.t = "str"
                                          /\ req[o].question.v # <<>>}
           question == IF others = {} THEN req[r].question.v
                       ELSE req[CHOOSE o \in others : TRUE].question.v
           relevant_docs == filter_relevant(question, req[r].retrieved_docs, <<>>)
       IN  IF relevant_docs = <<>>
           THEN req' = [req EXCEPT ![r].pc = "done",
                           ![r].relevant_docs = relevant_docs,
                           ![r].trace = Append(@, "grade_documents"),
                           ![r].response =
                               jsonify("answer", NO_RELEVANT_DOCS_ADVISORY, 200)]
           ELSE req' = [req EXCEPT ![r].pc = "generate_answer",
                           ![r].relevant_docs = relevant_docs,
                           ![r].trace = Append(@, "grade_documents")]
    /\ UNCHANGED <<mode, mainPc, url, docs, vector_store>>

\* lines 133-144
GradeDocuments(r) ==
    /\ req[r].pc = "grade_documents"
    /\ \E relevant_docs \in
              {filter_relevant(req[r].question.v, req[r].retrieved_docs, <<>>)} :
           IF relevant_docs = <<>>
           THEN req' = [req EXCEPT ![r].pc = "done",
                           ![r].relevant_docs = relevant_docs,
                           ![r].trace = Append(@, "grade_documents"),
                           ![r].response =
                               jsonify("answer", NO_RELEVANT_DOCS_ADVISORY, 200)]
           ELSE req' = [req EXCEPT ![r].pc = "generate_answer",
                           ![r].relevant_docs = relevant_docs,
                           ![r].trace = Append(@, "grade_documents")]
    /\ UNCHANGED <<mode, mainPc, url, docs, vector_store>>

\* lines 147-149: generate_answer calls the model once; it returns or raises
GenerateAnswer(r) ==
    /\ req[r].pc = "generate_answer"
    /\ LET prompt == generate_answer_prompt(req[r].question.v, req[r].relevant_docs)
       IN  \/ \E answer \in Completions :
                req' = [req EXCEPT ![r].pc = "done",
                           ![r].prompt = prompt,
                           ![r].completion = JStr(answer),
                           ![r].completionCalls = @ + 1,
                           ![r].trace = Append(@, "generate_answer"),
                           ![r].response = jsonify("answer", answer, 200)]
           \/ \E message \in CompletionErrors :
                req' = [req EXCEPT ![r].pc = "done",
                           ![r].prompt = prompt,
                           ![r].completionCalls = @ + 1,
                           ![r].trace = Append(@, "generate_answer"),
                           ![r].response = jsonify("error", message, 500)]
    /\ UNCHANGED <<mode, mainPc, url, docs, vector_store>>

\* the response is handed to Flask and the locals of chat() are gone
Return(r) ==
    /\ req[r].pc = "done"
    /\ req' = [req EXCEPT ![r] = IdleRequest]
    /\ UNCHANGED <<mode, mainPc, url, docs, vector_store>>

Next ==
    \/ RunMain
    \/ ImportApp
    \/ LoadSource
    \/ FinishBuild
    \/ AppRun
    \/ \E r \in DOMAIN req : Arrive(r)
    \/ \E r \in DOMAIN req : GetQuestion(r)
    \/ \E r \in DOMAIN req : CreateModel(r)
    \/ \E r \in DOMAIN req : GradeQuestion(r)
    \/ \E r \in DOMAIN req : CheckStore(r)
    \/ \E r \in DOMAIN req : SimilaritySearch(r)
    \/ \E r \in DOMAIN req : GradeDocuments(r)
    \/ \E r \in DOMAIN req : GenerateAnswer(r)
    \/ \E r \in DOMAIN req : Return(r)

Spec == Init /\ [][Next]_vars

(***************************************************************************)
(* The same program with two requests in flight at once: Flask's           *)
(* development server handles each request in a thread of its own.         *)
(***************************************************************************)
PairInit ==
    /\ mode = "none"
    /\ mainPc = "loaded"
    /\ url = 1
    /\ docs = <<>>
    /\ vector_store = None
    /\ req = [r \in {1, 2} |-> IdleRequest]

SpecPair == PairInit /\ [][Next]_vars

(***************************************************************************)
(* The program with its scheduling: a handler that has been entered runs   *)
(* on, each collaborator call returning or raising.  One request is in     *)
(* flight at a time; the slot is taken again after each response.          *)
(***************************************************************************)
Handle(r) ==
    \/ GetQuestion(r)
    \/ CreateModel(r)
    \/ GradeQuestion(r)
    \/ CheckStore(r)
    \/ SimilaritySearch(r)
    \/ GradeDocuments(r)
    \/ GenerateAnswer(r)

FairInit ==
    /\ mode = "none"
    /\ mainPc = "loaded"
    /\ url = 1
    /\ docs = <<>>
    /\ vector_store = None
    /\ req = [r \in {1} |-> IdleRequest]

FairSpec == FairInit /\ [][Next]_vars /\ WF_vars(Handle(1))

(***************************************************************************)
(* A second specification: one request handled by the same steps of        *)
(* chat(), with the question drawn from all concatenations of a few        *)
(* fragments, on a server that is already serving.                         *)
(***************************************************************************)
Frags ==
    { <<"s","o","f","t">>, <<"W","A","R","E">>, <<"C","o","d","i","n","g">>,
      <<"I","n","t","e","r","v","i","e","w">>, <<"p","i","z","z","a">>, <<" ">> }

RECURSIVE Concats(_)
Concats(n) ==
    IF n = 0 THEN {<<>>}
    ELSE LET shorter == Concats(n - 1)
         IN  shorter \cup {s \o f : s \in shorter, f \in Frags}

GateQuestions == Concats(MaxFrags)

GateInit ==
    /\ mainPc = "serving"
    /\ url = NumSources + 1
    /\ \/ /\ mode = "main"
          /\ docs = AllChunks(NumSources)
          /\ vector_store = [built |-> TRUE, chunks |-> docs]
       \/ /\ mode = "wsgi"
          /\ docs = <<>>
          /\ vector_store = None
    /\ \E q \in GateQuestions :
        req = [r \in ReqIds |->
                 IF r = 1
                 THEN [IdleRequest EXCEPT !.pc = "get_question",
                                          !.body = QuestionBody(JStr(q))]
                 ELSE IdleRequest]

GateNext ==
    \/ GetQuestion(1)
    \/ CreateModel(1)
    \/ GradeQuestion(1)
    \/ CheckStore(1)
    \/ SimilaritySearch(1)
    \/ GradeDocuments(1)
    \/ GenerateAnswer(1)

SpecGate == GateInit /\ [][GateNext]_vars

(***************************************************************************)
(* Vocabulary of the properties, stated without the program's operators.   *)
(***************************************************************************)
upperChar(c) ==
    IF \E i \in 1..26 : LOWER[i] = c
    THEN UPPER[CHOOSE i \in 1..26 : LOWER[i] = c]
    ELSE c

\* two characters that are the same letter in either case, or equal
SameLetter(a, b) ==
    \/ a = b
    \/ \E i \in 1..26 : {a, b} = {UPPER[i], LOWER[i]}

\* kw occurs in q at some position, letter case ignored
OccursIgnoringCase(kw, q) ==
    \E i \in 1..(Len(q) - Len(kw) + 1) :
        \A j \in 1..Len(kw) : SameLetter(q[i + j - 1], kw[j])

HasKeyword(q) ==
    \/ OccursIgnoringCase(kwSoftware, q)
    \/ OccursIgnoringCase(kwCoding, q)
    \/ OccursIgnoringCase(kwInterview, q)

\* q with the letters at the positions of parity par in upper case and
\* the others in lower case
AltCase(q, par) ==
    [i \in 1..Len(q) |-> IF i % 2 = par THEN upperChar(q[i]) ELSE lowerChar(q[i])]

CaseVariants(q) ==
    { [i \in 1..Len(q) |-> upperChar(q[i])],
      [i \in 1..Len(q) |-> lowerChar(q[i])],
      AltCase(q, 0), AltCase(q, 1) }

\* q[a..b] is a maximal run of non-whitespace characters of q
IsWord(q, a, b) ==
    /\ a <= b
    /\ \A i \in a..b : q[i] \notin WHITESPACE
    /\ a = 1 \/ q[a - 1] \in WHITESPACE
    /\ b = Len(q) \/ q[b + 1] \in WHITESPACE

\* some word of q occurs in the text d, letter case ignored
SharesWord(q, d) ==
    \E a, b \in 1..Len(q) :
        /\ IsWord(q, a, b)
        /\ \E off \in 0..(Len(d) - (b - a + 1)) :
            \A j \in 0..(b - a) : SameLetter(d[off + j + 1], q[a + j])

\* the step named stage was entered by request r
Ran(r, stage) == \E i \in 1..Len(req[r].trace) : req[r].trace[i] = stage

\* request r carries a non-empty question string
HasQuestion(r) ==
    /\ req[r].pc # "idle"
    /\ req[r].body.kind = "object"
    /\ req[r].body.has
    /\ req[r].body.q.t = "str"
    /\ req[r].body.q.v # <<>>

OutOfDomain == jsonify("answer", OUT_OF_DOMAIN_ADVISORY, 200)
NoRelevantDocuments == jsonify("answer", NO_RELEVANT_DOCS_ADVISORY, 200)
NotReady == jsonify("error", NOT_READY_MSG, 503)
InvalidRequest == jsonify("error", NO_QUESTION_MSG, 400)

RetrievalOrLater == {"similarity_search", "grade_documents", "generate_answer"}

(***************************************************************************)
(* C1: a request whose non-empty question holds none of the keywords       *)
(* "software", "coding", "interview" in any letter case is graded "exit",  *)
(* and it never reaches the index check, the similarity search or the      *)
(* completion call, whether the index is built or not; once the gate has   *)
(* run it has finished with the out-of-domain advisory.                    *)
(***************************************************************************)
C1_OffDomainNeverRetrieves ==
    \A r \in DOMAIN req :
        (HasQuestion(r) /\ ~HasKeyword(req[r].body.q.v)) =>
            /\ req[r].pc = "get_question" => grade_question(req[r].body.q.v) = EXIT
            /\ req[r].searchCalls = 0
            /\ req[r].completionCalls = 0
            /\ req[r].pc \notin ({"check_store"} \cup RetrievalOrLater)
            /\ \A st \in RetrievalOrLater : ~Ran(r, st)
            /\ Ran(r, "grade_question") =>
                  (req[r].pc = "done" /\ req[r].response = OutOfDomain)

\* an off-domain question made of pieces of a keyword has been turned away
\* while the index is built
C1_Witness ==
    \E r \in DOMAIN req :
        /\ HasQuestion(r)
        /\ ~HasKeyword(req[r].body.q.v)
        /\ StrIn(<<"s","o","f","t">>, req[r].body.q.v)
        /\ vector_store # None
        /\ req[r].pc = "done"
        /\ req[r].response = OutOfDomain

(***************************************************************************)
(* C7: grade_question answers "continue" exactly for the questions that    *)
(* hold "software", "coding" or "interview" in any letter case and "exit"  *)
(* for all others, and it answers the same for a question and for its      *)
(* re-spellings in other letter cases.                                     *)
(***************************************************************************)
C7_GateIffKeyword ==
    \A r \in DOMAIN req :
        HasQuestion(r) =>
            LET q == req[r].body.q.v
            IN  /\ req[r].pc = "get_question" =>
                    /\ grade_question(q) = (IF HasKeyword(q) THEN CONTINUE ELSE EXIT)
                    /\ \A v \in CaseVariants(q) : grade_question(v) = grade_question(q)
                /\ req[r].pc = "check_store" => HasKeyword(q)
                /\ req[r].response = OutOfDomain => ~HasKeyword(q)

\* a question spelling a keyword in mixed case has passed the gate
C7_Witness ==
    \E r \in DOMAIN req :
        /\ HasQuestion(r)
        /\ HasKeyword(req[r].body.q.v)
        /\ lower(req[r].body.q.v) # req[r].body.q.v
        /\ req[r].pc = "check_store"

(***************************************************************************)
(* C2: a request whose non-empty question the query gate has graded        *)
(* "exit" is finished, and its response is the out-of-domain advisory      *)
(* payload with status 200, never an error payload, whether the store is   *)
(* built or absent.                                                        *)
(***************************************************************************)
C2_ExitGetsAdvisory ==
    \A r \in DOMAIN req :
        ( /\ HasQuestion(r)
          /\ Ran(r, "grade_question")
          /\ grade_question(req[r].body.q.v) = EXIT ) =>
            /\ req[r].pc = "done"
            /\ req[r].response = OutOfDomain
            /\ DOMAIN req[r].response.payload = {"answer"}

\* an off-domain question has been answered while the store is absent
C2_Witness ==
    \E r \in DOMAIN req :
        /\ HasQuestion(r)
        /\ Ran(r, "grade_question")
        /\ ~HasKeyword(req[r].body.q.v)
        /\ vector_store = None
        /\ mainPc = "serving"
        /\ req[r].response = OutOfDomain

(***************************************************************************)
(* C3: a request whose question has passed the query gate while            *)
(* vector_store is None goes only to the store check and ends with the     *)
(* error "Vector store is not ready", status 503; the similarity search    *)
(* and the completion call are not invoked for it.                         *)
(***************************************************************************)
C3_AbsentStoreGives503 ==
    \A r \in DOMAIN req :
        ( /\ HasQuestion(r)
          /\ Ran(r, "grade_question")
          /\ HasKeyword(req[r].body.q.v)
          /\ vector_store = None ) =>
            /\ req[r].pc \in {"check_store", "done"}
            /\ req[r].pc = "done" => req[r].response = NotReady
            /\ req[r].searchCalls = 0
            /\ req[r].completionCalls = 0
            /\ \A st \in RetrievalOrLater : ~Ran(r, st)

\* an in-domain question has been refused with 503
C3_Witness ==
    \E r \in DOMAIN req :
        /\ HasQuestion(r)
        /\ HasKeyword(req[r].body.q.v)
        /\ vector_store = None
        /\ req[r].pc = "done"
        /\ req[r].response = NotReady

(***************************************************************************)
(* C4: a request whose question is missing or empty ends with the client   *)
(* error "No question provided", status 400, and nothing but the reading   *)
(* of the question has run for it.                                         *)
(***************************************************************************)
QuestionMissingOrEmpty(r) ==
    /\ req[r].pc # "idle"
    /\ \/ req[r].body.kind # "object"
       \/ ~req[r].body.has
       \/ req[r].body.q.t = "null"
       \/ req[r].body.q.t = "str" /\ req[r].body.q.v = <<>>

C4_MissingQuestionGets400 ==
    \A r \in DOMAIN req :
        (QuestionMissingOrEmpty(r) /\ req[r].pc = "done") =>
            /\ req[r].response = InvalidRequest
            /\ req[r].trace = <<"get_question">>

(***************************************************************************)
(* C5: when none of the retrieved chunks shares a word with the question,  *)
(* the request ends with the no-relevant-documents advisory and the        *)
(* completion is not called; generate_answer is reached only with a        *)
(* non-empty relevant_docs.                                                *)
(***************************************************************************)
C5_EmptyRelevantSetNeverGenerates ==
    \A r \in DOMAIN req :
        /\ ( /\ Ran(r, "grade_documents")
             /\ \A i \in 1..Len(req[r].retrieved_docs) :
                    ~SharesWord(req[r].question.v, req[r].retrieved_docs[i]) ) =>
                /\ req[r].pc = "done"
                /\ req[r].response = NoRelevantDocuments
                /\ req[r].completionCalls = 0
                /\ ~Ran(r, "generate_answer")
        /\ (req[r].pc = "generate_answer" \/ Ran(r, "generate_answer")
            \/ req[r].completionCalls > 0) =>
                /\ req[r].relevant_docs # <<>>
                /\ \E i \in 1..Len(req[r].retrieved_docs) :
                    SharesWord(req[r].question.v, req[r].retrieved_docs[i])

\* chunks were retrieved, the document gate kept none of them
C5_Witness ==
    \E r \in DOMAIN req :
        /\ Ran(r, "grade_documents")
        /\ req[r].retrieved_docs # <<>>
        /\ req[r].relevant_docs = <<>>
        /\ req[r].response = NoRelevantDocuments

(***************************************************************************)
(* C6: relevant_docs is the subsequence of retrieved_docs made of the      *)
(* chunks that share a word with the question (a whitespace-delimited word *)
(* of the question occurring in the chunk, letter case ignored): all of    *)
(* them, no other, in the order of retrieved_docs.                         *)
(***************************************************************************)
KeptPositions(q, ds) == {i \in 1..Len(ds) : SharesWord(q, ds[i])}

C6_RelevantIsOrderedSubsequence ==
    \A r \in DOMAIN req :
        Ran(r, "grade_documents") =>
            LET kept == KeptPositions(req[r].question.v, req[r].retrieved_docs)
            IN  /\ Len(req[r].relevant_docs) = Cardinality(kept)
                /\ \A i \in kept :
                    req[r].relevant_docs[Cardinality({j \in kept : j <= i})]
                        = req[r].retrieved_docs[i]

\* a question typed with capitals kept two chunks and dropped none
C6_Witness ==
    \E r \in DOMAIN req :
        /\ Ran(r, "grade_documents")
        /\ lower(req[r].question.v) # req[r].question.v
        /\ Len(req[r].relevant_docs) = 2
        /\ req[r].relevant_docs = req[r].retrieved_docs

(***************************************************************************)
(* C8: every request handled while vector_store is None ends with the      *)
(* error "Vector store is not ready" and with no other payload.            *)
(***************************************************************************)
C8_AbsentStoreOnlyNotReady ==
    \A r \in DOMAIN req :
        (req[r].pc = "done" /\ vector_store = None) => req[r].response = NotReady

(***************************************************************************)
(* C8 as amended: a request handled while vector_store is None is never    *)
(* answered from the index: it ends with the not-ready error when its      *)
(* question passed the query gate, and otherwise with the no-question      *)
(* error, the out-of-domain advisory or the error of a step before the     *)
(* store check; no search and no completion is invoked for it.             *)
(***************************************************************************)
BeforeStoreCheck ==
    { InvalidRequest, OutOfDomain,
      jsonify("error", ERR_GET_JSON, 500), jsonify("error", ERR_NO_GET, 500),
      jsonify("error", ERR_NO_LOWER, 500) }
    \cup {jsonify("error", message, 500) : message \in CreateModelErrors}

C8_AbsentStoreNeverAnswersFromIndex ==
    \A r \in DOMAIN req :
        (req[r].pc = "done" /\ vector_store = None) =>
            /\ req[r].response \in BeforeStoreCheck \cup {NotReady}
            /\ Ran(r, "check_store") <=> req[r].response = NotReady
            /\ req[r].searchCalls = 0
            /\ req[r].completionCalls = 0

\* a request was handled to its end while the store is absent, without
\* the not-ready error
C8_Witness ==
    \E r \in DOMAIN req :
        /\ req[r].pc = "done"
        /\ vector_store = None
        /\ req[r].response \in BeforeStoreCheck

(***************************************************************************)
(* C9: when the program is run as __main__, a request is handled only      *)
(* after initialize_vector_store has set vector_store, and a failed build  *)
(* ends the program: the server is never started after it.                 *)
(***************************************************************************)
C9_BuiltBeforeServing ==
    mode = "main" =>
        /\ mainPc = "serving" => vector_store # None
        /\ \A r \in DOMAIN req :
              req[r].pc # "idle" => (mainPc = "serving" /\ vector_store # None)
        /\ mainPc = "crashed" => vector_store = None

C9_BuildBeforeRequests ==
    /\ []C9_BuiltBeforeServing
    /\ [][(mode = "main" /\ mainPc = "crashed") => (mainPc' = "crashed" /\ req' = req)]_vars

\* the program was run as __main__ and a request is being handled
C9_Witness ==
    \E r \in DOMAIN req :
        /\ mode = "main"
        /\ req[r].pc = "grade_question"

(***************************************************************************)
(* C10: the stages a request goes through are an initial part of           *)
(* query gate, store check, similarity search, document gate, generation,  *)
(* in that order and none left out; the similarity search and the          *)
(* completion are each invoked at most once, also for a request that ends  *)
(* with an error.                                                          *)
(***************************************************************************)
StageOrder ==
    <<"grade_question", "check_store", "similarity_search",
      "grade_documents", "generate_answer">>

RECURSIVE StagesOf(_)
StagesOf(trace) ==
    IF trace = <<>> THEN <<>>
    ELSE IF \E i \in 1..Len(StageOrder) : StageOrder[i] = Head(trace)
         THEN <<Head(trace)>> \o StagesOf(Tail(trace))
         ELSE StagesOf(Tail(trace))

C10_StagesInOrderOnce ==
    \A r \in DOMAIN req :
        LET stages == StagesOf(req[r].trace)
        IN  /\ Len(stages) <= Len(StageOrder)
            /\ stages = SubSeq(StageOrder, 1, Len(stages))
            /\ req[r].searchCalls <= 1
            /\ req[r].completionCalls <= 1
            /\ req[r].searchCalls = (IF Ran(r, "similarity_search") THEN 1 ELSE 0)
            /\ req[r].completionCalls = (IF Ran(r, "generate_answer") THEN 1 ELSE 0)

\* all five stages ran and the completion failed: one call of each
C10_Witness ==
    \E r \in DOMAIN req :
        /\ StagesOf(req[r].trace) = StageOrder
        /\ req[r].response = jsonify("error", ERR_COMPLETION, 500)
        /\ req[r].searchCalls = 1
        /\ req[r].completionCalls = 1

(***************************************************************************)
(* C11: a request whose store check, similarity search or completion       *)
(* fails ends at once with an error payload, and the payloads of two       *)
(* requests that failed in different components differ, so that the        *)
(* response tells which component failed.                                  *)
(***************************************************************************)
Last(seq) == seq[Len(seq)]

\* the component whose failure ended request r, "none" when none did
FailedComponent(r) ==
    IF req[r].pc # "done" \/ req[r].trace = <<>>
       \/ DOMAIN req[r].response.payload # {"error"}
    THEN "none"
    ELSE CASE Last(req[r].trace) = "check_store" -> "index not ready"
           [] Last(req[r].trace) = "similarity_search" -> "embedding"
           [] Last(req[r].trace) = "generate_answer" -> "generation"
           [] OTHER -> "none"

C11_FailureKindInResponse ==
    \A r1, r2 \in DOMAIN req :
        ( /\ FailedComponent(r1) # "none"
          /\ FailedComponent(r2) # "none"
          /\ FailedComponent(r1) # FailedComponent(r2) ) =>
            req[r1].response # req[r2].response

(***************************************************************************)
(* C12: vector_store is written once, by the startup, from None to the     *)
(* built index, while no request is being handled; no step of a request    *)
(* handler changes it, whatever the other request is doing, and once       *)
(* built it keeps its value.                                               *)
(***************************************************************************)
C12_StoreWrittenOnceAtStartup ==
    [][ /\ (vector_store' # vector_store) =>
              /\ vector_store = None
              /\ vector_store'.built
              /\ mainPc = "building"
              /\ req' = req
              /\ \A r \in DOMAIN req : req[r].pc = "idle"
        /\ (req' # req) => vector_store' = vector_store
        /\ (vector_store # None) => vector_store' = vector_store ]_vars

\* two requests have both searched the built store
C12_Witness ==
    /\ vector_store # None
    /\ \A r \in DOMAIN req : req[r].searchCalls = 1
    /\ Cardinality(DOMAIN req) = 2

(***************************************************************************)
(* C13: with two requests interleaved in any way, each step changes the    *)
(* state of one request only, and the response of each request is the one  *)
(* that its own body, the store and the results its own collaborator       *)
(* calls returned give when the request is handled alone.                  *)
(***************************************************************************)
Errors500(messages) == {jsonify("error", message, 500) : message \in messages}

\* the responses handling request r alone can end with, from its body,
\* the store, whether its client was created and what its search returned
AloneResponses(r) ==
    LET body == req[r].body
        q == IF body.has THEN body.q ELSE JNull
        found == req[r].retrieved_docs
    IN  CASE body.kind = "nojson" -> Errors500({ERR_GET_JSON})
          [] body.kind = "null" -> Errors500({ERR_NO_GET})
          [] ~Truthy(q) -> {InvalidRequest}
          [] ~req[r].model -> Errors500(CreateModelErrors)
          [] q.t # "str" -> Errors500({ERR_NO_LOWER})
          [] ~HasKeyword(q.v) -> {OutOfDomain}
          [] vector_store = None -> {NotReady}
          [] ~Ran(r, "grade_documents") -> Errors500(SearchErrors)
          [] \A i \in 1..Len(found) : ~SharesWord(q.v, found[i]) ->
                {NoRelevantDocuments}
          [] OTHER ->
                {jsonify("answer", answer, 200) : answer \in Completions}
                \cup Errors500(CompletionErrors)

C13_AloneResponse ==
    \A r \in DOMAIN req :
        /\ req[r].pc = "done" => req[r].response \in AloneResponses(r)
        /\ Ran(r, "get_question") /\ req[r].body.kind = "object" =>
              req[r].question = (IF req[r].body.has THEN req[r].body.q ELSE JNull)
        /\ Ran(r, "grade_documents") =>
              req[r].retrieved_docs \in SearchResults(vector_store.chunks)

C13_RequestsIndependent ==
    /\ []C13_AloneResponse
    /\ [][\A r \in DOMAIN req :
            (req'[r] # req[r]) => \A o \in DOMAIN req \ {r} : req'[o] = req[o]]_vars

\* two requests with different in-domain questions were handled together
\* on the same store and ended differently
C13_Witness ==
    /\ Cardinality(DOMAIN req) = 2
    /\ \A r \in DOMAIN req : req[r].pc = "done" /\ Ran(r, "grade_documents")
    /\ \E r1, r2 \in DOMAIN req :
        /\ req[r1].question # req[r2].question
        /\ req[r1].retrieved_docs = req[r2].retrieved_docs
        /\ req[r1].response = NoRelevantDocuments
        /\ req[r2].completionCalls = 1

(***************************************************************************)
(* C14: a request that passed both gates on a built index with a non-empty *)
(* relevant_docs has called the completion exactly once, with a prompt     *)
(* holding the texts of relevant_docs in their order, separated by blank   *)
(* lines, then the question as received and the marker "Answer:"; and its  *)
(* response is the answer payload holding the completion's text unchanged. *)
(***************************************************************************)
\* number of prompt elements before the text of chunk i
RECURSIVE ChunkOffset(_, _)
ChunkOffset(ds, i) ==
    IF i = 1 THEN 2 ELSE ChunkOffset(ds, i - 1) + Len(ds[i - 1]) + 2

PromptHolds(prompt, q, ds) ==
    LET n == Len(ds)
        end == ChunkOffset(ds, n) + Len(ds[n])
    IN  /\ Len(prompt) = end + Len(q) + 5
        /\ prompt[1] = "Using the following context, answer the question.\n\n"
        /\ prompt[2] = "Context:\n"
        /\ \A i \in 1..n :
              SubSeq(prompt, ChunkOffset(ds, i) + 1, ChunkOffset(ds, i) + Len(ds[i]))
                  = ds[i]
        /\ \A i \in 2..n :
              /\ prompt[ChunkOffset(ds, i) - 1] = "\n"
              /\ prompt[ChunkOffset(ds, i)] = "\n"
        /\ prompt[end + 1] = "\n"
        /\ prompt[end + 2] = "\n"
        /\ prompt[end + 3] = "Question: "
        /\ SubSeq(prompt, end + 4, end + 3 + Len(q)) = q
        /\ prompt[end + Len(q) + 4] = "\n"
        /\ prompt[end + Len(q) + 5] = "Answer:"

PassedBothGates(r) ==
    /\ req[r].pc = "done"
    /\ Ran(r, "grade_documents")
    /\ req[r].relevant_docs # <<>>
    /\ vector_store # None

C14_AnswerIsCompletion ==
    \A r \in DOMAIN req :
        PassedBothGates(r) =>
            /\ req[r].completionCalls = 1
            /\ PromptHolds(req[r].prompt, req[r].body.q.v, req[r].relevant_docs)
            /\ DOMAIN req[r].response.payload = {"answer"}
            /\ req[r].completion.t = "str"
            /\ req[r].response = jsonify("answer", req[r].completion.v, 200)

(***************************************************************************)
(* C14 as amended: such a request has called the completion exactly once   *)
(* with that prompt; when the call returned, the response is the answer    *)
(* payload holding the returned text unchanged, and when the call raised,  *)
(* the response is the error payload with status 500.                      *)
(***************************************************************************)
C14_AnswerIsCompletionUnlessRaised ==
    \A r \in DOMAIN req :
        PassedBothGates(r) =>
            /\ req[r].completionCalls = 1
            /\ PromptHolds(req[r].prompt, req[r].body.q.v, req[r].relevant_docs)
            /\ req[r].completion.t = "str" =>
                  req[r].response = jsonify("answer", req[r].completion.v, 200)
            /\ req[r].completion.t # "str" =>
                  req[r].response \in Errors500(CompletionErrors)

\* a question of two words kept two chunks and the completion's text,
\* with its blanks, is the answer
C14_Witness ==
    \E r \in DOMAIN req :
        /\ PassedBothGates(r)
        /\ Len(req[r].relevant_docs) = 2
        /\ Len(split(req[r].body.q.v)) = 2
        /\ req[r].completion = JStr(<<" ","o","k","\n">>)
        /\ req[r].response.payload = [answer |-> <<" ","o","k","\n">>]

(***************************************************************************)
(* C15: vector_store is at every moment either absent or an index built    *)
(* from all the chunks of all the sources of KNOWLEDGE_BASE_URLS; a build  *)
(* in which a source could not be loaded or the embedding failed leaves it *)
(* absent.                                                                 *)
(***************************************************************************)
C15_AbsentOrAllSources ==
    \/ vector_store = None
    \/ /\ vector_store.built
       /\ vector_store.chunks = AllChunks(NumSources)

\* the chunks of the sources of S among the first n, whole and in list order
RECURSIVE ChunksOfLoaded(_, _)
ChunksOfLoaded(S, n) ==
    IF n = 0 THEN <<>>
    ELSE ChunksOfLoaded(S, n - 1) \o (IF n \in S THEN ChunksOf(n) ELSE <<>>)

(***************************************************************************)
(* C15 as amended: vector_store is at every moment either absent or an     *)
(* index built from all the chunks of every source that was loaded, in the *)
(* order of the list, at least one source having been loaded; a source     *)
(* that cannot be loaded is left out or ends the startup, and a startup    *)
(* that ended in a failure of the loading or of the embedding leaves       *)
(* vector_store absent.  No index holds part of the chunks of a source.    *)
(***************************************************************************)
C15_AbsentOrAllLoadedSources ==
    /\ \/ vector_store = None
       \/ /\ vector_store.built
          /\ mainPc \in {"initialized", "serving"}
          /\ \E S \in SUBSET KNOWLEDGE_BASE_URLS :
                /\ S # {}
                /\ vector_store.chunks = ChunksOfLoaded(S, NumSources)
    /\ mainPc = "crashed" => vector_store = None

\* an index is served that lacks a source of the list
C15_Witness ==
    /\ vector_store # None
    /\ mainPc = "serving"
    /\ vector_store.chunks # AllChunks(NumSources)
    /\ \E r \in DOMAIN req : req[r].searchCalls = 1

(***************************************************************************)
(* C16: every request that has entered the handler, each call it makes     *)
(* returning or raising, eventually finishes; a finished request has       *)
(* exactly one of the outcomes InvalidRequest, OutOfDomain,                *)
(* NoRelevantDocuments, Answered, Errored and one response, set once,      *)
(* whose payload holds either "answer" or "error" and not both.            *)
(***************************************************************************)
\* the terminal outcomes the finished request r has, by the step that
\* ended it and the payload it returned
Outcomes(r) ==
    LET ended == Last(req[r].trace)
        fields == DOMAIN req[r].response.payload
        status == req[r].response.status
    IN  {o \in {"InvalidRequest", "OutOfDomain", "NoRelevantDocuments",
                "Answered", "Errored"} :
            CASE o = "InvalidRequest" ->
                    ended = "get_question" /\ "error" \in fields /\ status = 400
              [] o = "OutOfDomain" ->
                    ended = "grade_question" /\ "answer" \in fields /\ status = 200
              [] o = "NoRelevantDocuments" ->
                    ended = "grade_documents" /\ "answer" \in fields /\ status = 200
              [] o = "Answered" ->
                    ended = "generate_answer" /\ "answer" \in fields /\ status = 200
              [] OTHER ->
                    "error" \in fields /\ status \in {500, 503}}

C16_OneOutcomeOnePayload ==
    \A r \in DOMAIN req :
        /\ req[r].pc = "done" =>
              /\ req[r].trace # <<>>
              /\ Cardinality(Outcomes(r)) = 1
              /\ DOMAIN req[r].response.payload \in {{"answer"}, {"error"}}
        /\ req[r].pc # "done" => req[r].response = NoResponse

C16_ResponseSetOnce ==
    \A r \in DOMAIN req :
        req[r].response # NoResponse =>
            \/ req'[r].response = req[r].response
            \/ req'[r] = IdleRequest

C16_EveryRequestEnds ==
    /\ []C16_OneOutcomeOnePayload
    /\ [][C16_ResponseSetOnce]_vars
    /\ (req[1].pc = "get_question") ~> (req[1].pc = "done")

\* a request whose similarity search raised has finished as Errored
C16_Witness ==
    \E r \in DOMAIN req :
        /\ req[r].pc = "done"
        /\ Last(req[r].trace) = "similarity_search"
        /\ Outcomes(r) = {"Errored"}
        /\ req[r].response.status = 500

(***************************************************************************)
(* C17: create_model is called exactly once for every request whose        *)
(* question is not empty, right after the test for an empty question and   *)
(* before the question is graded and the store is tested, and never for a  *)
(* request without a question; so the client exists for the requests that  *)
(* end with the out-of-domain advisory, with "Vector store is not ready"   *)
(* or with the no-relevant-documents advisory, and a request whose         *)
(* create_model raised has ended with status 500 and was never graded.     *)
(***************************************************************************)
Count(trace, stage) == Cardinality({i \in 1..Len(trace) : trace[i] = stage})

\* the body of request r is a JSON object whose question is truthy
QuestionNotEmpty(r) ==
    /\ req[r].body.kind = "object"
    /\ req[r].body.has
    /\ Truthy(req[r].body.q)

C17_ClientCreatedOnceBeforeGate ==
    \A r \in DOMAIN req :
        LET trace == req[r].trace
            calls == Count(trace, "create_model")
        IN  /\ calls <= 1
            /\ (req[r].pc \notin {"idle", "get_question"} /\ ~QuestionNotEmpty(r)) =>
                  /\ calls = 0
                  /\ req[r].pc = "done"
                  /\ trace = <<"get_question">>
            /\ (req[r].pc \notin {"idle", "get_question", "create_model"}
                /\ QuestionNotEmpty(r)) =>
                  /\ calls = 1
                  /\ trace[1] = "get_question"
                  /\ trace[2] = "create_model"
            /\ (req[r].pc = "create_model") =>
                  /\ calls = 0
                  /\ trace = <<"get_question">>
            /\ (req[r].pc = "done"
                /\ req[r].response \in {OutOfDomain, NotReady, NoRelevantDocuments}) =>
                  /\ calls = 1
                  /\ req[r].model
            /\ (calls = 1 /\ ~req[r].model) =>
                  /\ req[r].pc = "done"
                  /\ trace = <<"get_question", "create_model">>
                  /\ req[r].response \in Errors500(CreateModelErrors)
            /\ (Ran(r, "grade_question") \/ Ran(r, "check_store")) =>
                  /\ req[r].model
                  /\ calls = 1

\* a request with a question whose create_model raised has ended with 500
C17_Witness ==
    \E r \in DOMAIN req :
        /\ QuestionNotEmpty(r)
        /\ req[r].pc = "done"
        /\ req[r].trace = <<"get_question", "create_model">>
        /\ req[r].response = jsonify("error", ERR_CREATE_MODEL, 500)

====
